---- MODULE Spec2Model ----
(***************************************************************************)
(* Input handler of libyang (src/src/parser.c): one struct ly_in over a    *)
(* file descriptor, a FILE stream, a file path or a memory buffer, with    *)
(* the process resources it touches: the descriptor table, the FILE        *)
(* streams, the mappings made by ly_mmap(), the heap strings made by       *)
(* strdup() and the caller's memory buffers.                               *)
(***************************************************************************)
EXTENDS Integers, Sequences, FiniteSets, TLC

(* ------------------------------ bounds --------------------------------- *)
MaxFd == 2
MaxMaps == 2
MaxHeap == 2
MaxStreams == 3
MaxCount == 2
MaxLen == 1

(* ------------------------- program constants --------------------------- *)
LY_IN_ERROR == -1
LY_IN_FD == 0
LY_IN_FILE == 1
LY_IN_FILEPATH == 2
LY_IN_MEMORY == 3
LY_SUCCESS == 0
LY_EINVAL == 3

(* --------------------------- the environment --------------------------- *)
(* Files on disk: 1 and 2 are not empty, 3 is empty.                       *)
FileContent == << <<1, 2>>, <<2>>, <<>> >>
Files == 1..3
(* Path strings and the file each names when the directory is there (0:   *)
(* no such file).                                                          *)
Paths == { <<1>>, <<1, 2>>, <<2>>, <<3>> }
FS(d, p) == IF ~d THEN 0
            ELSE IF p = <<1>> THEN 1
            ELSE IF p = <<1, 2>> THEN 2
            ELSE IF p = <<2>> THEN 3
            ELSE 0
(* The caller's NUL-terminated buffers.                                    *)
BufContent == << <<1, 2>>, <<2>> >>
Bufs == 1..2

FDs == 0..MaxFd
Addrs == 1..MaxMaps
Slots == 1..MaxHeap
Streams == 1..MaxStreams

(* Pointers into data: seg > 0 is a mapping address, seg < 0 the caller's  *)
(* buffer -seg, seg = 0 the null pointer.                                  *)
Ptr(seg, off) == [seg |-> seg, off |-> off]
NullPtr == Ptr(0, 0)
BufPtr(b) == Ptr(0 - b, 0)

(* A value read from a union member other than the one last written.       *)
Garbage == -9
NoFd == -2

VARIABLES
    in,       \* the struct ly_in (alloc = FALSE: no handler, the pointer is NULL)
    fdtab,    \* descriptor table of the process
    streams,  \* FILE objects: fileno of each open stream, NoFd when closed
    maps,     \* live mappings: the file each address maps, 0 when unmapped
    heap,     \* strings made by strdup()/strndup()
    bufLive,  \* the caller's buffers that have not been freed
    disk,     \* whether the directory the paths are in exists
    call,     \* the last call: function, arguments, result, locals
    hist      \* what the calls on the present handler have done so far

vars == <<in, fdtab, streams, maps, heap, bufLive, disk, call, hist>>

Closed == [open |-> FALSE, file |-> 0]
NoString == [live |-> FALSE, str |-> <<>>]

(* struct ly_in; method.fd and method.fpath.fd share their storage, and    *)
(* method.f overlays it: writing one member makes the other unreadable.    *)
NoHandle == [alloc |-> FALSE, type |-> LY_IN_ERROR, start |-> NullPtr,
             current |-> NullPtr, length |-> 0, fd |-> 0, f |-> 0,
             filepath |-> 0]
Calloc == [NoHandle EXCEPT !.alloc = TRUE, !.type = 0]
SetFd(h, fd) == [h EXCEPT !.fd = fd, !.f = Garbage]
SetF(h, f) == [h EXCEPT !.f = f, !.fd = Garbage]

(* The record of the last call: the function, its integer argument a (a   *)
(* descriptor, a stream, the count, the destroy flag; for a path or a      *)
(* string, whether it is non-null), the result (ret, or rptr for a         *)
(* pointer; for a constructor whether a handler was made; for ly_in_free() *)
(* the medium freed) and the locals fd (what open() returned) and addr     *)
(* (what ly_mmap() returned), both NoFd when the call did not get there;   *)
(* for ly_read() also whether buf is non-null (buf) and the bytes the call *)
(* copied into it (out).                                                   *)
NoCall == [op |-> "none", a |-> 0, ret |-> 0, rptr |-> NullPtr,
           fd |-> NoFd, addr |-> NoFd, buf |-> 0, out |-> <<>>]
NullStr == <<>>

(* The history of the handler made last: the descriptors (fds) and streams *)
(* (fs) its mutators have handed back, the descriptors its constructor and *)
(* mutator have opened, and whether a replacement asked of its path        *)
(* mutator did not take place; and, while nothing but forward reads into a *)
(* buffer has been called since the handler was made or reset (seq), the   *)
(* bytes these reads have copied (got) and the sum of the counts they were *)
(* called with (asked, counted up to MaxCount + 1).                        *)
NoHist == [fds |-> {}, fs |-> {}, opened |-> {}, failed |-> FALSE,
           seq |-> TRUE, got |-> <<>>, asked |-> 0]
Fresh(hs) == [hs EXCEPT !.seq = TRUE, !.got = <<>>, !.asked = 0]
Moved(hs) == [hs EXCEPT !.seq = FALSE, !.got = <<>>, !.asked = 0]

Min(a, b) == IF a < b THEN a ELSE b
MinOf(S) == CHOOSE x \in S : \A y \in S : x <= y

(* ------------------------------ libc ----------------------------------- *)
FreeFds(t) == {fd \in FDs : ~t[fd].open}
(* open(2): the lowest free descriptor, -1 when the file does not exist or *)
(* the table is full.                                                      *)
OpenFd(t, d, p) == IF FS(d, p) = 0 \/ FreeFds(t) = {} THEN -1 ELSE MinOf(FreeFds(t))
Open(t, d, p) ==
    LET fd == OpenFd(t, d, p) IN
    IF fd = -1 THEN t
    ELSE [t EXCEPT ![fd] = [open |-> TRUE, file |-> FS(d, p)]]
(* close(2): EBADF on a descriptor that is not open.                       *)
CloseOk(t, fd) == fd \in FDs /\ t[fd].open
Close(t, fd) == IF CloseOk(t, fd) THEN [t EXCEPT ![fd] = Closed] ELSE t

FreeSlots(hp) == {s \in Slots : ~hp[s].live}
(* strdup()/strndup(): len = 0 selects strdup().                           *)
Strndup(p, len) == IF len = 0 THEN p ELSE SubSeq(p, 1, Min(len, Len(p)))
FreeStr(hp, s) == IF s \in Slots THEN [hp EXCEPT ![s] = NoString] ELSE hp
FreeStrOk(hp, s) == s = 0 \/ (s \in Slots /\ hp[s].live)

(* ---------------------------- ly_mmap ---------------------------------- *)
FreeAddrs(m) == {a \in Addrs : m[a] = 0}
ly_mmap(t, m, fd) ==
    IF fd \notin FDs \/ ~t[fd].open
    THEN [err |-> TRUE, addr |-> 0, length |-> 0]
    ELSE IF Len(FileContent[t[fd].file]) = 0
    THEN [err |-> FALSE, addr |-> 0, length |-> 0]
    ELSE IF FreeAddrs(m) = {}
    THEN [err |-> TRUE, addr |-> 0, length |-> 0]
    ELSE [err |-> FALSE, addr |-> MinOf(FreeAddrs(m)),
          length |-> Len(FileContent[t[fd].file])]
MapIn(t, m, fd) ==
    LET r == ly_mmap(t, m, fd) IN
    IF r.err \/ r.addr = 0 THEN m ELSE [m EXCEPT ![r.addr] = t[fd].file]
ly_munmapOk(m, p) == p.seg \in Addrs /\ p.off = 0 /\ m[p.seg] # 0
ly_munmap(m, p) == IF ly_munmapOk(m, p) THEN [m EXCEPT ![p.seg] = 0] ELSE m
(* What ly_mmap() returned, as the call record keeps it: -1 on an error,   *)
(* 0 for an empty file, else the address.                                  *)
MapCode(r) == IF r.err THEN -1 ELSE r.addr

(* The bytes at a segment, with the terminating NUL.                       *)
Mem(m, seg) ==
    IF seg \in Addrs THEN (IF m[seg] = 0 THEN <<0>> ELSE FileContent[m[seg]] \o <<0>>)
    ELSE IF (0 - seg) \in Bufs THEN BufContent[0 - seg] \o <<0>>
    ELSE <<0>>

TypeOK ==
    /\ in.alloc \in BOOLEAN
    /\ in.type \in LY_IN_ERROR..LY_IN_MEMORY
    /\ fdtab \in [FDs -> [open : BOOLEAN, file : {0} \cup Files]]
    /\ streams \in [Streams -> FDs \cup {NoFd}]
    /\ maps \in [Addrs -> {0} \cup Files]
    /\ bufLive \in [Bufs -> BOOLEAN]
    /\ disk \in BOOLEAN

(* What the caller has prepared before it makes a handler. A caller of     *)
(* descriptors has files 1, 2 and the empty file 3 open as descriptors 0,  *)
(* 1, 2; a caller of streams has them open as streams 1, 2, 3; a caller of *)
(* paths has the directory, with descriptor 0 (the standard input) open or *)
(* closed; a caller of memory has the buffers.                             *)
CallerFds == 0..2
CallerFile(fd) == [open |-> TRUE, file |-> fd + 1]
Stdin == CallerFile(0)
Prepared ==
    { [fdtab |-> [fd \in FDs |-> IF fd \in CallerFds THEN CallerFile(fd) ELSE Closed],
       streams |-> [s \in Streams |-> NoFd],
       bufLive |-> [b \in Bufs |-> FALSE], disk |-> FALSE],
      [fdtab |-> [fd \in FDs |-> IF fd \in CallerFds THEN CallerFile(fd) ELSE Closed],
       streams |-> [s \in Streams |-> IF s - 1 \in CallerFds THEN s - 1 ELSE NoFd],
       bufLive |-> [b \in Bufs |-> FALSE], disk |-> FALSE],
      [fdtab |-> [fd \in FDs |-> IF fd = 0 THEN Stdin ELSE Closed],
       streams |-> [s \in Streams |-> NoFd],
       bufLive |-> [b \in Bufs |-> FALSE], disk |-> TRUE],
      [fdtab |-> [fd \in FDs |-> Closed],
       streams |-> [s \in Streams |-> NoFd],
       bufLive |-> [b \in Bufs |-> FALSE], disk |-> TRUE],
      [fdtab |-> [fd \in FDs |-> IF fd = 0 THEN Stdin ELSE Closed],
       streams |-> [s \in Streams |-> NoFd],
       bufLive |-> [b \in Bufs |-> TRUE], disk |-> FALSE] }

Init ==
    /\ in = NoHandle
    /\ \E c \in Prepared :
           /\ fdtab = c.fdtab
           /\ streams = c.streams
           /\ bufLive = c.bufLive
           /\ disk = c.disk
    /\ maps = [a \in Addrs |-> 0]
    /\ heap = [s \in Slots |-> NoString]
    /\ call = NoCall
    /\ hist = NoHist

(* ------------------------------- stdio --------------------------------- *)
(* fclose(f): closes the stream and its descriptor *)
Fclose(st, f) == IF f \in Streams THEN [st EXCEPT ![f] = NoFd] ELSE st
FcloseFd(st, t, f) == IF f \in Streams THEN Close(t, st[f]) ELSE t
FcloseOk(st, f) == f \in Streams /\ st[f] # NoFd

(* int fileno(FILE *f) *)
fileno(st, f) == IF f \in Streams /\ st[f] # NoFd THEN st[f] ELSE -1

(* ---------------------------- descriptors ------------------------------ *)
(* ly_in_type() *)
ly_in_type(h) == IF ~h.alloc THEN LY_IN_ERROR ELSE h.type

(* ly_in_new_fd() as it must not be: an empty file is not refused.         *)
Do_ly_in_new_fd_AcceptsEmpty(t, m, fd) ==
    LET r == ly_mmap(t, m, fd) IN
    IF ~(fd >= 0) THEN [in |-> NoHandle, maps |-> m, addr |-> NoFd]
    ELSE IF r.err
    THEN [in |-> NoHandle, maps |-> m, addr |-> MapCode(r)]
    ELSE [in |-> [SetFd([Calloc EXCEPT !.type = LY_IN_FD], fd) EXCEPT
                      !.current = Ptr(r.addr, 0), !.start = Ptr(r.addr, 0),
                      !.length = r.length],
          maps |-> MapIn(t, m, fd), addr |-> MapCode(r)]

(* ly_in_new_fd(): the handler made, alloc = FALSE when NULL is returned   *)
Do_ly_in_new_fd(t, m, fd) ==
    LET r == ly_mmap(t, m, fd) IN
    IF ~(fd >= 0) THEN [in |-> NoHandle, maps |-> m, addr |-> NoFd]
    ELSE IF r.err \/ r.addr = 0
    THEN [in |-> NoHandle, maps |-> m, addr |-> MapCode(r)]
    ELSE [in |-> [SetFd([Calloc EXCEPT !.type = LY_IN_FD], fd) EXCEPT
                      !.current = Ptr(r.addr, 0), !.start = Ptr(r.addr, 0),
                      !.length = r.length],
          maps |-> MapIn(t, m, fd), addr |-> MapCode(r)]

ly_in_new_fd(fd) ==
    /\ ~in.alloc
    /\ \E r \in {Do_ly_in_new_fd(fdtab, maps, fd)} :
        /\ in' = r.in
        /\ maps' = r.maps
        /\ call' = [NoCall EXCEPT !.op = "ly_in_new_fd", !.a = fd,
                       !.ret = IF r.in.alloc THEN 1 ELSE 0, !.addr = r.addr]
    /\ UNCHANGED <<fdtab, streams, heap, bufLive, disk>>
    /\ hist' = IF Do_ly_in_new_fd(fdtab, maps, fd).in.alloc THEN NoHist ELSE hist

(* ly_in_fd() as it must not be: the old view is unmapped before the new   *)
(* descriptor is known to map.                                             *)
Do_ly_in_fd_UnmapsFirst(h, t, m, fd) ==
    LET prev_fd == h.fd
        r == ly_mmap(t, m, fd)
    IN
    IF ~(h.alloc /\ h.type = LY_IN_FD)
    THEN [in |-> h, maps |-> m, ret |-> -1, addr |-> NoFd, merr |-> FALSE]
    ELSE IF fd = -1
    THEN [in |-> h, maps |-> m, ret |-> prev_fd, addr |-> NoFd, merr |-> FALSE]
    ELSE IF r.err \/ r.addr = 0
    THEN [in |-> h, maps |-> ly_munmap(m, h.start), ret |-> -1,
          addr |-> MapCode(r), merr |-> FALSE]
    ELSE [in |-> [h EXCEPT !.fd = fd,
                            !.current = Ptr(r.addr, 0), !.start = Ptr(r.addr, 0),
                            !.length = r.length],
          maps |-> ly_munmap(MapIn(t, m, fd), h.start),
          ret |-> prev_fd, addr |-> MapCode(r),
          merr |-> ~ly_munmapOk(MapIn(t, m, fd), h.start)]

(* ly_in_fd() as it must not be: the cursor keeps its offset in the new    *)
(* view.                                                                   *)
Do_ly_in_fd_KeepsOffset(h, t, m, fd) ==
    LET prev_fd == h.fd
        r == ly_mmap(t, m, fd)
    IN
    IF ~(h.alloc /\ h.type = LY_IN_FD)
    THEN [in |-> h, maps |-> m, ret |-> -1, addr |-> NoFd, merr |-> FALSE]
    ELSE IF fd = -1
    THEN [in |-> h, maps |-> m, ret |-> prev_fd, addr |-> NoFd, merr |-> FALSE]
    ELSE IF r.err \/ r.addr = 0
    THEN [in |-> h, maps |-> m, ret |-> -1, addr |-> MapCode(r), merr |-> FALSE]
    ELSE [in |-> [h EXCEPT !.fd = fd,
                            !.current = Ptr(r.addr, h.current.off),
                            !.start = Ptr(r.addr, 0),
                            !.length = r.length],
          maps |-> ly_munmap(MapIn(t, m, fd), h.start),
          ret |-> prev_fd, addr |-> MapCode(r),
          merr |-> ~ly_munmapOk(MapIn(t, m, fd), h.start)]

(* ly_in_fd() as it must not be: the handler and its medium are not looked *)
(* at.                                                                     *)
Do_ly_in_fd_NoArgCheck(h, t, m, fd) ==
    LET prev_fd == h.fd
        r == ly_mmap(t, m, fd)
    IN
    IF fd = -1
    THEN [in |-> h, maps |-> m, ret |-> prev_fd, addr |-> NoFd, merr |-> FALSE]
    ELSE IF r.err \/ r.addr = 0
    THEN [in |-> h, maps |-> m, ret |-> -1, addr |-> MapCode(r), merr |-> FALSE]
    ELSE [in |-> [h EXCEPT !.fd = fd,
                            !.current = Ptr(r.addr, 0), !.start = Ptr(r.addr, 0),
                            !.length = r.length],
          maps |-> ly_munmap(MapIn(t, m, fd), h.start),
          ret |-> prev_fd, addr |-> MapCode(r),
          merr |-> ~ly_munmapOk(MapIn(t, m, fd), h.start)]

(* ly_in_fd(): the handler, the mappings and the value returned            *)
Do_ly_in_fd(h, t, m, fd) ==
    LET prev_fd == h.fd
        r == ly_mmap(t, m, fd)
    IN
    IF ~(h.alloc /\ h.type = LY_IN_FD)
    THEN [in |-> h, maps |-> m, ret |-> -1, addr |-> NoFd, merr |-> FALSE]
    ELSE IF fd = -1
    THEN [in |-> h, maps |-> m, ret |-> prev_fd, addr |-> NoFd, merr |-> FALSE]
    ELSE IF r.err \/ r.addr = 0
    THEN [in |-> h, maps |-> m, ret |-> -1, addr |-> MapCode(r), merr |-> FALSE]
    ELSE [in |-> [h EXCEPT !.fd = fd,
                            !.current = Ptr(r.addr, 0), !.start = Ptr(r.addr, 0),
                            !.length = r.length],
          maps |-> ly_munmap(MapIn(t, m, fd), h.start),
          ret |-> prev_fd, addr |-> MapCode(r),
          merr |-> ~ly_munmapOk(MapIn(t, m, fd), h.start)]

ly_in_fd(fd) ==
    /\ \E r \in {Do_ly_in_fd(in, fdtab, maps, fd)} :
        /\ in' = r.in
        /\ maps' = r.maps
        /\ call' = [NoCall EXCEPT !.op = "ly_in_fd", !.a = fd, !.ret = r.ret,
                       !.addr = r.addr]
    /\ UNCHANGED <<fdtab, streams, heap, bufLive, disk>>
    /\ hist' = IF fd # -1 /\ Do_ly_in_fd(in, fdtab, maps, fd).ret # -1
               THEN [hist EXCEPT !.fds = @ \cup {in.fd}] ELSE hist

(* ------------------------------ streams -------------------------------- *)
(* ly_in_new_file() *)
Do_ly_in_new_file(st, t, m, f) ==
    LET r == Do_ly_in_new_fd(t, m, fileno(st, f)) IN
    IF f = 0 THEN [in |-> NoHandle, maps |-> m, addr |-> NoFd]
    ELSE IF ~r.in.alloc THEN r
    ELSE [r EXCEPT !.in = SetF([r.in EXCEPT !.type = LY_IN_FILE], f)]

ly_in_new_file(f) ==
    /\ ~in.alloc
    /\ f = 0 \/ FcloseOk(streams, f)
    /\ \E r \in {Do_ly_in_new_file(streams, fdtab, maps, f)} :
        /\ in' = r.in
        /\ maps' = r.maps
        /\ call' = [NoCall EXCEPT !.op = "ly_in_new_file", !.a = f,
                       !.ret = IF r.in.alloc THEN 1 ELSE 0, !.addr = r.addr]
    /\ UNCHANGED <<fdtab, streams, heap, bufLive, disk>>
    /\ hist' = IF Do_ly_in_new_file(streams, fdtab, maps, f).in.alloc THEN NoHist ELSE hist

(* ly_in_file() as it must not be: after a failure the handler is left    *)
(* with the medium and the payload of a descriptor.                        *)
Do_ly_in_file_NoRestore(h, st, t, m, f) ==
    LET prev_f == h.f
        asfd == SetFd([h EXCEPT !.type = LY_IN_FD], fileno(st, prev_f))
        r == Do_ly_in_fd(asfd, t, m, fileno(st, f))
    IN
    IF ~(h.alloc /\ h.type = LY_IN_FILE)
    THEN [in |-> h, maps |-> m, ret |-> 0, addr |-> NoFd, merr |-> FALSE]
    ELSE IF f = 0
    THEN [in |-> h, maps |-> m, ret |-> prev_f, addr |-> NoFd, merr |-> FALSE]
    ELSE IF r.ret = -1
    THEN [r EXCEPT !.ret = 0]
    ELSE [r EXCEPT !.in = SetF([r.in EXCEPT !.type = LY_IN_FILE], f),
                   !.ret = prev_f]

(* ly_in_file(): the handler, the mappings and the stream returned         *)
Do_ly_in_file(h, st, t, m, f) ==
    LET prev_f == h.f
        asfd == SetFd([h EXCEPT !.type = LY_IN_FD], fileno(st, prev_f))
        r == Do_ly_in_fd(asfd, t, m, fileno(st, f))
    IN
    IF ~(h.alloc /\ h.type = LY_IN_FILE)
    THEN [in |-> h, maps |-> m, ret |-> 0, addr |-> NoFd, merr |-> FALSE]
    ELSE IF f = 0
    THEN [in |-> h, maps |-> m, ret |-> prev_f, addr |-> NoFd, merr |-> FALSE]
    ELSE IF r.ret = -1
    THEN [r EXCEPT !.in = SetF([r.in EXCEPT !.type = LY_IN_FILE], prev_f),
                   !.ret = 0]
    ELSE [r EXCEPT !.in = SetF([r.in EXCEPT !.type = LY_IN_FILE], f),
                   !.ret = prev_f]

ly_in_file(f) ==
    /\ f = 0 \/ FcloseOk(streams, f)
    /\ \E r \in {Do_ly_in_file(in, streams, fdtab, maps, f)} :
        /\ in' = r.in
        /\ maps' = r.maps
        /\ call' = [NoCall EXCEPT !.op = "ly_in_file", !.a = f, !.ret = r.ret,
                       !.addr = r.addr]
    /\ UNCHANGED <<fdtab, streams, heap, bufLive, disk>>
    /\ hist' = IF f # 0 /\ Do_ly_in_file(in, streams, fdtab, maps, f).ret # 0
               THEN [hist EXCEPT !.fs = @ \cup {in.f}] ELSE hist

(* ------------------------------- memory -------------------------------- *)
(* A string the caller may pass: NULL, or a buffer it has not freed        *)
Usable(bl, str) == IF str = NullPtr THEN TRUE ELSE bl[0 - str.seg]

(* ly_in_new_memory() *)
Do_ly_in_new_memory(str) ==
    IF str = NullPtr THEN NoHandle
    ELSE [Calloc EXCEPT !.type = LY_IN_MEMORY, !.start = str, !.current = str]

ly_in_new_memory(str) ==
    /\ ~in.alloc
    /\ Usable(bufLive, str)
    /\ in' = Do_ly_in_new_memory(str)
    /\ call' = [NoCall EXCEPT !.op = "ly_in_new_memory",
                   !.a = IF str = NullPtr THEN 0 ELSE 1,
                   !.ret = IF str = NullPtr THEN 0 ELSE 1]
    /\ hist' = IF str # NullPtr THEN NoHist ELSE hist
    /\ UNCHANGED <<fdtab, streams, maps, heap, bufLive, disk>>

(* ly_in_memory(): the handler and the pointer returned                    *)
Do_ly_in_memory(h, str) ==
    LET data == h.current IN
    IF ~(h.alloc /\ h.type = LY_IN_MEMORY) THEN [in |-> h, rptr |-> NullPtr]
    ELSE IF str # NullPtr
    THEN [in |-> [h EXCEPT !.start = str, !.current = str], rptr |-> data]
    ELSE [in |-> h, rptr |-> data]

ly_in_memory(str) ==
    /\ Usable(bufLive, str)
    /\ \E r \in {Do_ly_in_memory(in, str)} :
        /\ in' = r.in
        /\ call' = [NoCall EXCEPT !.op = "ly_in_memory",
                       !.a = IF str = NullPtr THEN 0 ELSE 1, !.rptr = r.rptr]
    /\ UNCHANGED <<fdtab, streams, maps, heap, bufLive, disk>>
    /\ UNCHANGED hist

(* ly_in_reset() as it must not be: start is set to current.               *)
Do_ly_in_reset_MovesStart(h) ==
    IF ~h.alloc THEN [in |-> h, ret |-> LY_EINVAL]
    ELSE [in |-> [h EXCEPT !.start = h.current], ret |-> LY_SUCCESS]

(* ly_in_reset() *)
Do_ly_in_reset(h) ==
    IF ~h.alloc THEN [in |-> h, ret |-> LY_EINVAL]
    ELSE [in |-> [h EXCEPT !.current = h.start], ret |-> LY_SUCCESS]

ly_in_reset_call ==
    /\ in' = Do_ly_in_reset(in).in
    /\ call' = [NoCall EXCEPT !.op = "ly_in_reset", !.ret = Do_ly_in_reset(in).ret]
    /\ UNCHANGED <<fdtab, streams, maps, heap, bufLive, disk>>

ly_in_reset == ly_in_reset_call /\ UNCHANGED hist

(* ly_in_reset(), with the history of the reads begun anew                 *)
ly_in_reset_traced ==
    /\ ly_in_reset_call
    /\ hist' = IF in.alloc THEN Fresh(hist) ELSE hist

(* ------------------------------- paths --------------------------------- *)
Alloc(hp, str) == [hp EXCEPT ![MinOf(FreeSlots(hp))] = [live |-> TRUE, str |-> str]]

(* ly_in_new_filepath() *)
Do_ly_in_new_filepath(t, m, hp, d, filepath, len) ==
    LET fp == MinOf(FreeSlots(hp))
        hp1 == Alloc(hp, Strndup(filepath, len))
        fd == OpenFd(t, d, hp1[fp].str)
        t1 == Open(t, d, hp1[fp].str)
        r == Do_ly_in_new_fd(t1, m, fd)
    IN
    IF filepath = NullStr
    THEN [in |-> NoHandle, fdtab |-> t, maps |-> m, heap |-> hp,
          fd |-> NoFd, addr |-> NoFd, fp |-> 0]
    ELSE IF fd = 0
    THEN [in |-> NoHandle, fdtab |-> t1, maps |-> m, heap |-> FreeStr(hp1, fp),
          fd |-> fd, addr |-> NoFd, fp |-> fp]
    ELSE IF ~r.in.alloc
    THEN [in |-> NoHandle, fdtab |-> t1, maps |-> r.maps, heap |-> FreeStr(hp1, fp),
          fd |-> fd, addr |-> r.addr, fp |-> fp]
    ELSE [in |-> [SetFd([r.in EXCEPT !.type = LY_IN_FILEPATH], fd) EXCEPT
                      !.filepath = fp],
          fdtab |-> t1, maps |-> r.maps, heap |-> hp1,
          fd |-> fd, addr |-> r.addr, fp |-> fp]

ly_in_new_filepath(filepath, len) ==
    /\ ~in.alloc
    /\ FreeSlots(heap) # {}
    /\ \E r \in {Do_ly_in_new_filepath(fdtab, maps, heap, disk, filepath, len)} :
        /\ in' = r.in
        /\ fdtab' = r.fdtab
        /\ maps' = r.maps
        /\ heap' = r.heap
        /\ call' = [NoCall EXCEPT !.op = "ly_in_new_filepath",
                       !.a = IF filepath = NullStr THEN 0 ELSE 1,
                       !.ret = IF r.in.alloc THEN 1 ELSE 0,
                       !.fd = r.fd, !.addr = r.addr]
        /\ hist' = IF r.in.alloc THEN [NoHist EXCEPT !.opened = {r.fd}] ELSE hist
    /\ UNCHANGED <<streams, bufLive, disk>>

(* ly_in_filepath() as it must not be: when ly_in_fd() fails the handler   *)
(* is left with the medium of a descriptor.                                *)
Do_ly_in_filepath_NoRestore(h, t, m, hp, d, filepath, len) ==
    LET fp == MinOf(FreeSlots(hp))
        hp1 == Alloc(hp, Strndup(filepath, len))
        fd == OpenFd(t, d, hp1[fp].str)
        t1 == Open(t, d, hp1[fp].str)
        r == Do_ly_in_fd([h EXCEPT !.type = LY_IN_FD], t1, m, fd)
        prev_fd == r.ret
        none == [in |-> h, fdtab |-> t, maps |-> m, heap |-> hp, ret |-> 0,
                 fd |-> NoFd, addr |-> NoFd, fp |-> 0,
                 cerr |-> FALSE, merr |-> FALSE, ferr |-> FALSE]
    IN
    IF ~(h.alloc /\ h.type = LY_IN_FILEPATH)
    THEN [none EXCEPT !.ret = IF filepath # NullStr THEN 0 ELSE -1]
    ELSE IF filepath = NullStr
    THEN [none EXCEPT !.ret = h.filepath]
    ELSE IF fd = 0
    THEN [none EXCEPT !.fdtab = t1, !.heap = FreeStr(hp1, fp), !.fd = fd, !.fp = fp]
    ELSE IF prev_fd = -1
    THEN [none EXCEPT !.in = r.in,
                      !.fdtab = t1, !.maps = r.maps, !.heap = FreeStr(hp1, fp),
                      !.fd = fd, !.addr = r.addr, !.fp = fp, !.merr = r.merr]
    ELSE [none EXCEPT !.in = [SetFd([r.in EXCEPT !.type = LY_IN_FILEPATH], fd)
                                  EXCEPT !.filepath = fp],
                      !.fdtab = Close(t1, prev_fd), !.maps = r.maps,
                      !.heap = FreeStr(hp1, h.filepath),
                      !.fd = fd, !.addr = r.addr, !.fp = fp, !.merr = r.merr,
                      !.cerr = ~CloseOk(t1, prev_fd),
                      !.ferr = ~FreeStrOk(hp1, h.filepath)]

(* ly_in_filepath(): ret is the string returned, 0 for NULL, -1 for the    *)
(* pointer of value -1                                                     *)
Do_ly_in_filepath(h, t, m, hp, d, filepath, len) ==
    LET fp == MinOf(FreeSlots(hp))
        hp1 == Alloc(hp, Strndup(filepath, len))
        fd == OpenFd(t, d, hp1[fp].str)
        t1 == Open(t, d, hp1[fp].str)
        r == Do_ly_in_fd([h EXCEPT !.type = LY_IN_FD], t1, m, fd)
        prev_fd == r.ret
        none == [in |-> h, fdtab |-> t, maps |-> m, heap |-> hp, ret |-> 0,
                 fd |-> NoFd, addr |-> NoFd, fp |-> 0,
                 cerr |-> FALSE, merr |-> FALSE, ferr |-> FALSE]
    IN
    IF ~(h.alloc /\ h.type = LY_IN_FILEPATH)
    THEN [none EXCEPT !.ret = IF filepath # NullStr THEN 0 ELSE -1]
    ELSE IF filepath = NullStr
    THEN [none EXCEPT !.ret = h.filepath]
    ELSE IF fd = 0
    THEN [none EXCEPT !.fdtab = t1, !.heap = FreeStr(hp1, fp), !.fd = fd, !.fp = fp]
    ELSE IF prev_fd = -1
    THEN [none EXCEPT !.in = [r.in EXCEPT !.type = LY_IN_FILEPATH],
                      !.fdtab = t1, !.maps = r.maps, !.heap = FreeStr(hp1, fp),
                      !.fd = fd, !.addr = r.addr, !.fp = fp, !.merr = r.merr]
    ELSE [none EXCEPT !.in = [SetFd([r.in EXCEPT !.type = LY_IN_FILEPATH], fd)
                                  EXCEPT !.filepath = fp],
                      !.fdtab = Close(t1, prev_fd), !.maps = r.maps,
                      !.heap = FreeStr(hp1, h.filepath),
                      !.fd = fd, !.addr = r.addr, !.fp = fp, !.merr = r.merr,
                      !.cerr = ~CloseOk(t1, prev_fd),
                      !.ferr = ~FreeStrOk(hp1, h.filepath)]

(* The replacement asked of ly_in_filepath() took place: the file was      *)
(* opened and mapped and the handler is on it (c: the locals of the call). *)
PathChanged(h, c) ==
    /\ c.fd \in FDs /\ c.addr \in Addrs
    /\ h.fd = c.fd /\ h.filepath = c.fp /\ h.start = Ptr(c.addr, 0)

ly_in_filepath(filepath, len) ==
    /\ FreeSlots(heap) # {}
    /\ \E r \in {Do_ly_in_filepath(in, fdtab, maps, heap, disk, filepath, len)} :
        /\ in' = r.in
        /\ fdtab' = r.fdtab
        /\ maps' = r.maps
        /\ heap' = r.heap
        /\ call' = [NoCall EXCEPT !.op = "ly_in_filepath",
                       !.a = IF filepath = NullStr THEN 0 ELSE 1,
                       !.ret = r.ret, !.fd = r.fd, !.addr = r.addr]
        /\ hist' = IF in.alloc /\ in.type = LY_IN_FILEPATH /\ filepath # NullStr
                   THEN [hist EXCEPT !.opened = @ \cup ({r.fd} \cap FDs),
                                     !.failed = @ \/ ~PathChanged(r.in, r)]
                   ELSE hist
    /\ UNCHANGED <<streams, bufLive, disk>>

(* ----------------------------- destructor ------------------------------ *)
FreeBufOk(bl, p) == (0 - p.seg) \in Bufs /\ p.off = 0 /\ bl[0 - p.seg]
FreeBuf(bl, p) == IF FreeBufOk(bl, p) THEN [bl EXCEPT ![0 - p.seg] = FALSE] ELSE bl

(* ly_in_free() as it must not be: the flag is not looked at and nothing   *)
(* of the caller's is closed or freed.                                     *)
Do_ly_in_free_NeverDestroys(h, t, st, m, hp, bl, destroy) ==
    LET none == [in |-> h, fdtab |-> t, streams |-> st, maps |-> m, heap |-> hp,
                 bufLive |-> bl, cerr |-> FALSE, merr |-> FALSE, ferr |-> FALSE]
        unmapped == [none EXCEPT !.in = NoHandle, !.maps = ly_munmap(m, h.start),
                                 !.merr = ~ly_munmapOk(m, h.start)]
    IN
    IF ~h.alloc THEN none
    ELSE IF h.type = LY_IN_ERROR THEN none
    ELSE IF h.type # LY_IN_MEMORY
    THEN IF h.type = LY_IN_FILEPATH
         THEN [unmapped EXCEPT !.fdtab = Close(t, h.fd),
                               !.cerr = ~CloseOk(t, h.fd),
                               !.heap = FreeStr(hp, h.filepath),
                               !.ferr = ~FreeStrOk(hp, h.filepath)]
         ELSE unmapped
    ELSE [none EXCEPT !.in = NoHandle]

(* ly_in_free() as it must not be: the flag is not looked at and the       *)
(* resource is closed or freed.                                            *)
Do_ly_in_free_AlwaysDestroys(h, t, st, m, hp, bl, destroy) ==
    LET none == [in |-> h, fdtab |-> t, streams |-> st, maps |-> m, heap |-> hp,
                 bufLive |-> bl, cerr |-> FALSE, merr |-> FALSE, ferr |-> FALSE]
        unmapped == [none EXCEPT !.in = NoHandle, !.maps = ly_munmap(m, h.start),
                                 !.merr = ~ly_munmapOk(m, h.start)]
    IN
    IF ~h.alloc THEN none
    ELSE IF h.type = LY_IN_ERROR THEN none
    ELSE IF h.type = LY_IN_MEMORY
    THEN [none EXCEPT !.in = NoHandle, !.bufLive = FreeBuf(bl, h.start),
                      !.ferr = ~FreeBufOk(bl, h.start)]
    ELSE IF h.type = LY_IN_FILE
    THEN [unmapped EXCEPT !.streams = Fclose(st, h.f),
                          !.fdtab = FcloseFd(st, t, h.f),
                          !.cerr = ~FcloseOk(st, h.f)]
    ELSE IF h.type = LY_IN_FILEPATH
    THEN [unmapped EXCEPT !.fdtab = Close(t, h.fd),
                          !.cerr = ~CloseOk(t, h.fd),
                          !.heap = FreeStr(hp, h.filepath),
                          !.ferr = ~FreeStrOk(hp, h.filepath)]
    ELSE [unmapped EXCEPT !.fdtab = Close(t, h.fd),
                          !.cerr = ~CloseOk(t, h.fd)]

(* ly_in_free() as it must not be: with the flag clear the descriptor and  *)
(* the path copy of a Path handler are kept like a caller's resources.     *)
Do_ly_in_free_PathKept(h, t, st, m, hp, bl, destroy) ==
    LET none == [in |-> h, fdtab |-> t, streams |-> st, maps |-> m, heap |-> hp,
                 bufLive |-> bl, cerr |-> FALSE, merr |-> FALSE, ferr |-> FALSE]
        unmapped == [none EXCEPT !.in = NoHandle, !.maps = ly_munmap(m, h.start),
                                 !.merr = ~ly_munmapOk(m, h.start)]
    IN
    IF ~h.alloc THEN none
    ELSE IF h.type = LY_IN_ERROR THEN none
    ELSE IF destroy # 0
    THEN IF h.type = LY_IN_MEMORY
         THEN [none EXCEPT !.in = NoHandle, !.bufLive = FreeBuf(bl, h.start),
                           !.ferr = ~FreeBufOk(bl, h.start)]
         ELSE IF h.type = LY_IN_FILE
         THEN [unmapped EXCEPT !.streams = Fclose(st, h.f),
                               !.fdtab = FcloseFd(st, t, h.f),
                               !.cerr = ~FcloseOk(st, h.f)]
         ELSE IF h.type = LY_IN_FILEPATH
         THEN [unmapped EXCEPT !.fdtab = Close(t, h.fd),
                               !.cerr = ~CloseOk(t, h.fd),
                               !.heap = FreeStr(hp, h.filepath),
                               !.ferr = ~FreeStrOk(hp, h.filepath)]
         ELSE [unmapped EXCEPT !.fdtab = Close(t, h.fd),
                               !.cerr = ~CloseOk(t, h.fd)]
    ELSE IF h.type # LY_IN_MEMORY
    THEN unmapped
    ELSE [none EXCEPT !.in = NoHandle]

(* ly_in_free() as it must not be: with the flag clear the view is left    *)
(* mapped.                                                                 *)
Do_ly_in_free_UnmapsOnDestroy(h, t, st, m, hp, bl, destroy) ==
    LET none == [in |-> h, fdtab |-> t, streams |-> st, maps |-> m, heap |-> hp,
                 bufLive |-> bl, cerr |-> FALSE, merr |-> FALSE, ferr |-> FALSE]
        unmapped == [none EXCEPT !.in = NoHandle, !.maps = ly_munmap(m, h.start),
                                 !.merr = ~ly_munmapOk(m, h.start)]
        kept == [none EXCEPT !.in = NoHandle]
    IN
    IF ~h.alloc THEN none
    ELSE IF h.type = LY_IN_ERROR THEN none
    ELSE IF destroy # 0
    THEN IF h.type = LY_IN_MEMORY
         THEN [none EXCEPT !.in = NoHandle, !.bufLive = FreeBuf(bl, h.start),
                           !.ferr = ~FreeBufOk(bl, h.start)]
         ELSE IF h.type = LY_IN_FILE
         THEN [unmapped EXCEPT !.streams = Fclose(st, h.f),
                               !.fdtab = FcloseFd(st, t, h.f),
                               !.cerr = ~FcloseOk(st, h.f)]
         ELSE IF h.type = LY_IN_FILEPATH
         THEN [unmapped EXCEPT !.fdtab = Close(t, h.fd),
                               !.cerr = ~CloseOk(t, h.fd),
                               !.heap = FreeStr(hp, h.filepath),
                               !.ferr = ~FreeStrOk(hp, h.filepath)]
         ELSE [unmapped EXCEPT !.fdtab = Close(t, h.fd),
                               !.cerr = ~CloseOk(t, h.fd)]
    ELSE IF h.type # LY_IN_MEMORY
    THEN IF h.type = LY_IN_FILEPATH
         THEN [kept EXCEPT !.fdtab = Close(t, h.fd),
                           !.cerr = ~CloseOk(t, h.fd),
                           !.heap = FreeStr(hp, h.filepath),
                           !.ferr = ~FreeStrOk(hp, h.filepath)]
         ELSE kept
    ELSE [none EXCEPT !.in = NoHandle]

(* ly_in_free() *)
Do_ly_in_free(h, t, st, m, hp, bl, destroy) ==
    LET none == [in |-> h, fdtab |-> t, streams |-> st, maps |-> m, heap |-> hp,
                 bufLive |-> bl, cerr |-> FALSE, merr |-> FALSE, ferr |-> FALSE]
        unmapped == [none EXCEPT !.in = NoHandle, !.maps = ly_munmap(m, h.start),
                                 !.merr = ~ly_munmapOk(m, h.start)]
    IN
    IF ~h.alloc THEN none
    ELSE IF h.type = LY_IN_ERROR THEN none
    ELSE IF destroy # 0
    THEN IF h.type = LY_IN_MEMORY
         THEN [none EXCEPT !.in = NoHandle, !.bufLive = FreeBuf(bl, h.start),
                           !.ferr = ~FreeBufOk(bl, h.start)]
         ELSE IF h.type = LY_IN_FILE
         THEN [unmapped EXCEPT !.streams = Fclose(st, h.f),
                               !.fdtab = FcloseFd(st, t, h.f),
                               !.cerr = ~FcloseOk(st, h.f)]
         ELSE IF h.type = LY_IN_FILEPATH
         THEN [unmapped EXCEPT !.fdtab = Close(t, h.fd),
                               !.cerr = ~CloseOk(t, h.fd),
                               !.heap = FreeStr(hp, h.filepath),
                               !.ferr = ~FreeStrOk(hp, h.filepath)]
         ELSE [unmapped EXCEPT !.fdtab = Close(t, h.fd),
                               !.cerr = ~CloseOk(t, h.fd)]
    ELSE IF h.type # LY_IN_MEMORY
    THEN IF h.type = LY_IN_FILEPATH
         THEN [unmapped EXCEPT !.fdtab = Close(t, h.fd),
                               !.cerr = ~CloseOk(t, h.fd),
                               !.heap = FreeStr(hp, h.filepath),
                               !.ferr = ~FreeStrOk(hp, h.filepath)]
         ELSE unmapped
    ELSE [none EXCEPT !.in = NoHandle]

ly_in_free(destroy) ==
    /\ \E r \in {Do_ly_in_free(in, fdtab, streams, maps, heap, bufLive, destroy)} :
        /\ in' = r.in
        /\ fdtab' = r.fdtab
        /\ streams' = r.streams
        /\ maps' = r.maps
        /\ heap' = r.heap
        /\ bufLive' = r.bufLive
        /\ call' = [NoCall EXCEPT !.op = "ly_in_free", !.a = destroy,
                       !.ret = ly_in_type(in)]
    /\ UNCHANGED disk
    /\ UNCHANGED hist

(* -------------------------------- read --------------------------------- *)
(* The loop of ly_read(): the index it stops at.                           *)
RECURSIVE Scan(_, _, _, _, _)
Scan(h, mem, direction, count, i) ==
    IF ~(i < count) THEN i
    ELSE LET c == h.current.off + (i * direction) IN
         IF (direction > 0 /\ mem[c + 1] = 0) \/ (direction < 0 /\ c = h.start.off)
         THEN i
         ELSE Scan(h, mem, direction, count, i + 1)

(* ly_read() as it must not be: the count asked for is returned.           *)
Do_ly_read_ReturnsCount(h, m, buf, count) ==
    LET mem == Mem(m, h.current.seg)
        direction == IF count > 0 THEN 1 ELSE -1
        n == IF count < 0 THEN count * (-1) ELSE count
        i == Scan(h, mem, direction, n, 0)
        to == h.current.off + (i * direction)
        lo == IF direction > 0 THEN h.current.off ELSE to
    IN
    IF ~(h.alloc /\ h.type # LY_IN_ERROR)
    THEN [in |-> h, ret |-> LY_EINVAL * (-1), out |-> <<>>]
    ELSE IF count > 0 /\ mem[h.current.off + 1] = 0
    THEN [in |-> h, ret |-> 0, out |-> <<>>]
    ELSE IF count = 0
    THEN [in |-> h, ret |-> 0, out |-> <<>>]
    ELSE [in |-> [h EXCEPT !.current = Ptr(h.current.seg, to)],
          ret |-> n,
          out |-> IF buf # 0 THEN SubSeq(mem, lo + 1, lo + i) ELSE <<>>]

(* ly_read() as it must not be: a backward read returns the distance with  *)
(* its sign.                                                               *)
Do_ly_read_ReturnsSigned(h, m, buf, count) ==
    LET mem == Mem(m, h.current.seg)
        direction == IF count > 0 THEN 1 ELSE -1
        n == IF count < 0 THEN count * (-1) ELSE count
        i == Scan(h, mem, direction, n, 0)
        to == h.current.off + (i * direction)
        lo == IF direction > 0 THEN h.current.off ELSE to
    IN
    IF ~(h.alloc /\ h.type # LY_IN_ERROR)
    THEN [in |-> h, ret |-> LY_EINVAL * (-1), out |-> <<>>]
    ELSE IF count > 0 /\ mem[h.current.off + 1] = 0
    THEN [in |-> h, ret |-> 0, out |-> <<>>]
    ELSE IF count = 0
    THEN [in |-> h, ret |-> 0, out |-> <<>>]
    ELSE [in |-> [h EXCEPT !.current = Ptr(h.current.seg, to)],
          ret |-> i * direction,
          out |-> IF buf # 0 THEN SubSeq(mem, lo + 1, lo + i) ELSE <<>>]

(* ly_read() as it must not be: a backward read copies the bytes in the    *)
(* order it passes them.                                                   *)
Reversed(s) == [k \in 1..Len(s) |-> s[Len(s) + 1 - k]]
Do_ly_read_CopiesBackward(h, m, buf, count) ==
    LET mem == Mem(m, h.current.seg)
        direction == IF count > 0 THEN 1 ELSE -1
        n == IF count < 0 THEN count * (-1) ELSE count
        i == Scan(h, mem, direction, n, 0)
        to == h.current.off + (i * direction)
        lo == IF direction > 0 THEN h.current.off ELSE to
    IN
    IF ~(h.alloc /\ h.type # LY_IN_ERROR)
    THEN [in |-> h, ret |-> LY_EINVAL * (-1), out |-> <<>>]
    ELSE IF count > 0 /\ mem[h.current.off + 1] = 0
    THEN [in |-> h, ret |-> 0, out |-> <<>>]
    ELSE IF count = 0
    THEN [in |-> h, ret |-> 0, out |-> <<>>]
    ELSE [in |-> [h EXCEPT !.current = Ptr(h.current.seg, to)],
          ret |-> i,
          out |-> IF buf = 0 THEN <<>>
                  ELSE IF direction > 0 THEN SubSeq(mem, lo + 1, lo + i)
                  ELSE Reversed(SubSeq(mem, lo + 1, lo + i))]

(* ly_read() as it must not be: a forward read moves current first and     *)
(* copies from where it has come to.                                       *)
Do_ly_read_CopiesAfterMove(h, m, buf, count) ==
    LET mem == Mem(m, h.current.seg)
        direction == IF count > 0 THEN 1 ELSE -1
        n == IF count < 0 THEN count * (-1) ELSE count
        i == Scan(h, mem, direction, n, 0)
        to == h.current.off + (i * direction)
    IN
    IF ~(h.alloc /\ h.type # LY_IN_ERROR)
    THEN [in |-> h, ret |-> LY_EINVAL * (-1), out |-> <<>>]
    ELSE IF count > 0 /\ mem[h.current.off + 1] = 0
    THEN [in |-> h, ret |-> 0, out |-> <<>>]
    ELSE IF count = 0
    THEN [in |-> h, ret |-> 0, out |-> <<>>]
    ELSE [in |-> [h EXCEPT !.current = Ptr(h.current.seg, to)],
          ret |-> i,
          out |-> IF buf # 0 THEN SubSeq(mem, to + 1, Min(to + i, Len(mem)))
                  ELSE <<>>]

(* ly_read() as it must not be: the handler is not looked at before it is  *)
(* read through.                                                           *)
Do_ly_read_NoCheck(h, m, buf, count) ==
    LET mem == Mem(m, h.current.seg)
        direction == IF count > 0 THEN 1 ELSE -1
        n == IF count < 0 THEN count * (-1) ELSE count
        i == Scan(h, mem, direction, n, 0)
        to == h.current.off + (i * direction)
        lo == IF direction > 0 THEN h.current.off ELSE to
    IN
    IF count > 0 /\ mem[h.current.off + 1] = 0
    THEN [in |-> h, ret |-> 0, out |-> <<>>]
    ELSE IF count = 0
    THEN [in |-> h, ret |-> 0, out |-> <<>>]
    ELSE [in |-> [h EXCEPT !.current = Ptr(h.current.seg, to)],
          ret |-> i,
          out |-> IF buf # 0 THEN SubSeq(mem, lo + 1, lo + i) ELSE <<>>]

(* ly_read() as it must not be: a forward read does not look for the       *)
(* terminator and stops only at the end of the bytes.                      *)
Do_ly_read_PassesTerminator(h, m, buf, count) ==
    LET mem == Mem(m, h.current.seg)
        direction == IF count > 0 THEN 1 ELSE -1
        n == IF count < 0 THEN count * (-1) ELSE count
        i == IF direction > 0 THEN Min(n, Len(mem) - h.current.off)
             ELSE Scan(h, mem, direction, n, 0)
        to == h.current.off + (i * direction)
        lo == IF direction > 0 THEN h.current.off ELSE to
    IN
    IF ~(h.alloc /\ h.type # LY_IN_ERROR)
    THEN [in |-> h, ret |-> LY_EINVAL * (-1), out |-> <<>>]
    ELSE IF count = 0
    THEN [in |-> h, ret |-> 0, out |-> <<>>]
    ELSE [in |-> [h EXCEPT !.current = Ptr(h.current.seg, to)],
          ret |-> i,
          out |-> IF buf # 0 THEN SubSeq(mem, lo + 1, lo + i) ELSE <<>>]

(* ly_read() as it must not be: without a buffer current is moved forward  *)
(* only, a backward seek leaves it where it is.                            *)
Do_ly_read_SeekForwardOnly(h, m, buf, count) ==
    LET mem == Mem(m, h.current.seg)
        direction == IF count > 0 THEN 1 ELSE -1
        n == IF count < 0 THEN count * (-1) ELSE count
        i == Scan(h, mem, direction, n, 0)
        to == IF buf = 0 /\ direction < 0 THEN h.current.off
              ELSE h.current.off + (i * direction)
        lo == IF direction > 0 THEN h.current.off ELSE to
    IN
    IF ~(h.alloc /\ h.type # LY_IN_ERROR)
    THEN [in |-> h, ret |-> LY_EINVAL * (-1), out |-> <<>>]
    ELSE IF count > 0 /\ mem[h.current.off + 1] = 0
    THEN [in |-> h, ret |-> 0, out |-> <<>>]
    ELSE IF count = 0
    THEN [in |-> h, ret |-> 0, out |-> <<>>]
    ELSE [in |-> [h EXCEPT !.current = Ptr(h.current.seg, to)],
          ret |-> i,
          out |-> IF buf # 0 THEN SubSeq(mem, lo + 1, lo + i) ELSE <<>>]

(* ly_read(): buf = 0 is a NULL buffer                                     *)
Do_ly_read(h, m, buf, count) ==
    LET mem == Mem(m, h.current.seg)
        direction == IF count > 0 THEN 1 ELSE -1
        n == IF count < 0 THEN count * (-1) ELSE count
        i == Scan(h, mem, direction, n, 0)
        to == h.current.off + (i * direction)
        lo == IF direction > 0 THEN h.current.off ELSE to
    IN
    IF ~(h.alloc /\ h.type # LY_IN_ERROR)
    THEN [in |-> h, ret |-> LY_EINVAL * (-1), out |-> <<>>]
    ELSE IF count > 0 /\ mem[h.current.off + 1] = 0
    THEN [in |-> h, ret |-> 0, out |-> <<>>]
    ELSE IF count = 0
    THEN [in |-> h, ret |-> 0, out |-> <<>>]
    ELSE [in |-> [h EXCEPT !.current = Ptr(h.current.seg, to)],
          ret |-> i,
          out |-> IF buf # 0 THEN SubSeq(mem, lo + 1, lo + i) ELSE <<>>]

ly_read(buf, count) ==
    /\ \E r \in {Do_ly_read(in, maps, buf, count)} :
        /\ in' = r.in
        /\ call' = [NoCall EXCEPT !.op = "ly_read", !.a = count, !.ret = r.ret]
    /\ UNCHANGED <<fdtab, streams, maps, heap, bufLive, disk>>
    /\ UNCHANGED hist

(* ly_read(), with buf and the bytes copied in the record of the call and  *)
(* the history of the reads kept: the bytes copied and the counts asked    *)
(* are added while every call since the handler was made or reset was a    *)
(* forward read into a buffer                                              *)
ly_read_traced(buf, count) ==
    /\ \E r \in {Do_ly_read(in, maps, buf, count)} :
        /\ in' = r.in
        /\ call' = [NoCall EXCEPT !.op = "ly_read", !.a = count, !.ret = r.ret,
                       !.buf = buf, !.out = r.out]
    /\ UNCHANGED <<fdtab, streams, maps, heap, bufLive, disk>>
    /\ hist' = IF ~in.alloc \/ count = 0 THEN hist
               ELSE IF count > 0 /\ buf # 0 /\ hist.seq
               THEN [hist EXCEPT !.got = @ \o call'.out,
                                 !.asked = Min(@ + count, MaxCount + 1)]
               ELSE Moved(hist)

(* ly_in_type() leaves everything as it is *)
ly_in_type_call ==
    /\ call' = [NoCall EXCEPT !.op = "ly_in_type", !.ret = ly_in_type(in)]
    /\ UNCHANGED <<in, fdtab, streams, maps, heap, bufLive, disk>>
    /\ UNCHANGED hist

(* The paths a caller passes: each whole (len = 0), and a prefix of one    *)
PathArgs == {<<p, 0>> : p \in Paths \cup {NullStr}}
            \cup {<<p, len>> : p \in {<<1, 2>>}, len \in 1..MaxLen}

Counts == (0 - MaxCount)..MaxCount

Next ==
    \/ \E fd \in -1..MaxFd : ly_in_new_fd(fd)
    \/ \E fd \in -1..MaxFd : ly_in_fd(fd)
    \/ \E f \in {0} \cup Streams : ly_in_new_file(f)
    \/ \E f \in {0} \cup Streams : ly_in_file(f)
    \/ \E b \in {0} \cup Bufs : ly_in_new_memory(BufPtr(b))
    \/ \E b \in {0} \cup Bufs : ly_in_memory(BufPtr(b))
    \/ \E a \in PathArgs : ly_in_new_filepath(a[1], a[2])
    \/ \E a \in PathArgs : ly_in_filepath(a[1], a[2])
    \/ \E buf \in 0..1, count \in Counts : ly_read(buf, count)
    \/ ly_in_reset
    \/ ly_in_type_call
    \/ \E destroy \in 0..1 : ly_in_free(destroy)

Spec == Init /\ [][Next]_vars

(* The calls on a handler that no mutator changes: it is made, read, reset *)
(* and freed, and the history of its reads is kept.                        *)
ReadNext ==
    \/ \E fd \in -1..MaxFd : ly_in_new_fd(fd)
    \/ \E f \in {0} \cup Streams : ly_in_new_file(f)
    \/ \E b \in {0} \cup Bufs : ly_in_new_memory(BufPtr(b))
    \/ \E a \in PathArgs : ly_in_new_filepath(a[1], a[2])
    \/ \E buf \in 0..1, count \in Counts : ly_read_traced(buf, count)
    \/ ly_in_reset_traced
    \/ \E destroy \in 0..1 : ly_in_free(destroy)

ReadSpec == Init /\ [][ReadNext]_vars

(* ======================= the claims, C1 to C10 ========================= *)
IsFd(h) == h.alloc /\ h.type = LY_IN_FD
IsFile(h) == h.alloc /\ h.type = LY_IN_FILE
IsPath(h) == h.alloc /\ h.type = LY_IN_FILEPATH
IsMemory(h) == h.alloc /\ h.type = LY_IN_MEMORY
(* ly_mmap() on the descriptor gives a view (it neither fails nor finds the *)
(* file empty)                                                             *)
Mappable(t, m, fd) == ~ly_mmap(t, m, fd).err /\ ly_mmap(t, m, fd).addr # 0
(* The view of a handler of a mapped medium is mapped                      *)
ViewMapped(m, h) == ly_munmapOk(m, h.start)

(* C1: when ly_in_fd(in, fd) with fd # -1 is called on a Descriptor        *)
(* handler and mapping fd fails or finds an empty file, it returns -1, the *)
(* handler is exactly what it was (medium, descriptor, start, current,     *)
(* length), the old view is still mapped and no new mapping is left.       *)
C1_FdFailureAtomic ==
    [][(call'.op = "ly_in_fd" /\ IsFd(in) /\ call'.a # -1
            /\ ~Mappable(fdtab, maps, call'.a))
        => (call'.ret = -1 /\ in' = in /\ maps' = maps /\ fdtab' = fdtab
            /\ ViewMapped(maps', in))]_vars
(* a Descriptor handler that has read on, after ly_in_fd() found the new   *)
(* descriptor's file empty                                                 *)
C1_Witness ==
    /\ call.op = "ly_in_fd" /\ call.a # -1 /\ call.addr = 0 /\ call.ret = -1
    /\ IsFd(in) /\ in.current.off > 0

(* C2: when ly_in_filepath(in, path) with a non-null path is called on a   *)
(* Path handler and opening the path fails or mapping the opened           *)
(* descriptor fails, the handler still has medium Path, its previous       *)
(* descriptor (still open), its previous path string and its previous view *)
(* with start, current and length unchanged.                               *)
C2_PathFailureRestores ==
    [][(call'.op = "ly_in_filepath" /\ IsPath(in) /\ call'.a = 1
            /\ (call'.fd = -1 \/ (call'.fd \in FDs /\ call'.addr \in {-1, 0})))
        => (in' = in
            /\ (in.fd \in FDs => fdtab'[in.fd] = fdtab[in.fd])
            /\ (in.filepath \in Slots => heap'[in.filepath] = heap[in.filepath])
            /\ maps' = maps)]_vars

(* The replacement asked of the last call, ly_in_filepath(), took place:   *)
(* the new file was opened and mapped and the handler reads it.            *)
Replaced ==
    /\ call.fd \in FDs /\ call.addr \in Addrs
    /\ IsPath(in) /\ in.fd = call.fd /\ in.start = Ptr(call.addr, 0)
    /\ fdtab[in.fd].open /\ maps[call.addr] = fdtab[in.fd].file

(* C3: ly_in_filepath() with a non-null path returns NULL if and only if   *)
(* the path was changed (the new file opened and mapped, the handler on    *)
(* it) and the pointer -1 in every other case; with a null path on a Path  *)
(* handler it returns the stored path string.                              *)
C3_PathReturnValue ==
    call.op = "ly_in_filepath" =>
        IF call.a = 1
        THEN (call.ret = 0 <=> Replaced) /\ (call.ret = -1 <=> ~Replaced)
        ELSE IsPath(in) => call.ret = in.filepath

(* The call c returned its failure value; for ly_in_filepath(), which      *)
(* returns NULL in either case, the replacement did not take place.        *)
Failed(c, replaced) ==
    \/ c.op \in {"ly_in_new_fd", "ly_in_new_file", "ly_in_new_filepath"} /\ c.ret = 0
    \/ c.op = "ly_in_fd" /\ c.a # -1 /\ c.ret = -1
    \/ c.op = "ly_in_file" /\ c.a # 0 /\ c.ret = 0
    \/ c.op = "ly_in_filepath" /\ c.a = 1 /\ ~replaced

(* C4: whenever a constructor or a mutator returns its failure value,      *)
(* every descriptor the call opened is closed, every mapping it made is    *)
(* unmapped and every path copy it made is freed: no descriptor, mapping   *)
(* or string is live after the call that was not live before it.           *)
C4_FailureLeavesNothing ==
    [][Failed(call', Replaced')
        => (/\ \A fd \in FDs : fdtab'[fd].open => fdtab[fd].open
            /\ \A a \in Addrs : maps'[a] # 0 => maps[a] # 0
            /\ \A s \in Slots : heap'[s].live => heap[s].live)]_vars

(* C5: when ly_in_fd(in, fd) with fd # -1 succeeds on a Descriptor handler *)
(* it returns the descriptor installed before, which is still open, the    *)
(* previous view is unmapped, the handler stores fd, and start = current = *)
(* the base of the new view, with the length of the new view.              *)
C5_FdSuccess ==
    [][(call'.op = "ly_in_fd" /\ IsFd(in) /\ call'.a # -1
            /\ Mappable(fdtab, maps, call'.a))
        => (/\ call'.ret = in.fd
            /\ CloseOk(fdtab', in.fd) /\ fdtab' = fdtab
            /\ maps'[in.start.seg] = 0
            /\ IsFd(in') /\ in'.fd = call'.a
            /\ in'.start = in'.current /\ in'.start.off = 0
            /\ in'.start.seg \in Addrs /\ maps[in'.start.seg] = 0
            /\ maps'[in'.start.seg] = fdtab[call'.a].file
            /\ in'.length = Len(FileContent[fdtab[call'.a].file])
            /\ \A a \in Addrs \ {in.start.seg, in'.start.seg} : maps'[a] = maps[a])]_vars
(* a Descriptor handler on the descriptor passed, the one handed back      *)
(* another and open                                                        *)
C5_Witness ==
    /\ call.op = "ly_in_fd" /\ call.a \in FDs /\ call.addr \in Addrs
    /\ IsFd(in) /\ in.fd = call.a /\ in.start = Ptr(call.addr, 0)
    /\ call.ret \in FDs \ {call.a} /\ fdtab[call.ret].open
    /\ call.ret \in hist.fds

(* What ly_in_free(in, 1) does to a handler of a descriptor, a stream or   *)
(* memory: it closes or frees the resource installed and leaves every      *)
(* other one as it is.                                                     *)
DestroysInstalled ==
    /\ IsFd(in) =>
        /\ CloseOk(fdtab, in.fd) /\ ~fdtab'[in.fd].open
        /\ \A fd \in FDs \ {in.fd} : fdtab'[fd] = fdtab[fd]
        /\ streams' = streams /\ bufLive' = bufLive
    /\ IsFile(in) =>
        /\ FcloseOk(streams, in.f) /\ streams'[in.f] = NoFd
        /\ \A f \in Streams \ {in.f} : streams'[f] = streams[f]
        /\ \A fd \in FDs \ {streams[in.f]} : fdtab'[fd] = fdtab[fd]
        /\ bufLive' = bufLive
    /\ IsMemory(in) =>
        /\ FreeBufOk(bufLive, in.start) /\ ~bufLive'[0 - in.start.seg]
        /\ \A b \in Bufs \ {0 - in.start.seg} : bufLive'[b] = bufLive[b]
        /\ fdtab' = fdtab /\ streams' = streams

(* C6 as stated: after successful replacements by ly_in_fd()/ly_in_file()  *)
(* and then ly_in_free(in, 1), the resource installed last is closed and   *)
(* every descriptor or stream that a mutator handed back is still open;    *)
(* for memory the buffer installed is freed and no other.                  *)
C6_DestroyClosesInstalled ==
    [][(call'.op = "ly_in_free" /\ call'.a = 1)
        => (/\ DestroysInstalled
            /\ IsFd(in) => \A fd \in hist.fds : fdtab'[fd].open
            /\ IsFile(in) => \A f \in hist.fs : streams'[f] # NoFd)]_vars
(* C6 amended: every descriptor or stream handed back, other than the one  *)
(* that is installed when ly_in_free(in, 1) is called, is still open.      *)
C6_DestroyClosesOnlyInstalled ==
    [][(call'.op = "ly_in_free" /\ call'.a = 1)
        => (/\ DestroysInstalled
            /\ IsFd(in) => \A fd \in hist.fds \ {in.fd} : fdtab'[fd].open
            /\ IsFile(in) => \A f \in hist.fs \ {in.f} :
                   streams'[f] # NoFd /\ fdtab'[streams'[f]].open)]_vars
(* a Descriptor handler destroyed after replacements: two descriptors were *)
(* handed back, one of them installed again and now closed, the other open *)
C6_Witness ==
    /\ call.op = "ly_in_free" /\ call.a = 1 /\ call.ret = LY_IN_FD
    /\ ~in.alloc
    /\ \E fd \in hist.fds : ~fdtab[fd].open
    /\ \E fd \in hist.fds : fdtab[fd].open

(* C7: ly_in_free(in, 0) on a Descriptor handler leaves the descriptor     *)
(* open, on a Stream handler the stream open, on a Memory handler the      *)
(* buffer not freed; only the view, if there is one, and the handler are   *)
(* released.                                                               *)
C7_FreeKeepsCallerResources ==
    [][(call'.op = "ly_in_free" /\ call'.a = 0
            /\ (IsFd(in) \/ IsFile(in) \/ IsMemory(in)))
        => (/\ fdtab' = fdtab /\ streams' = streams /\ bufLive' = bufLive
            /\ heap' = heap
            /\ IsFd(in) => CloseOk(fdtab', in.fd)
            /\ IsFile(in) => FcloseOk(streams', in.f)
                                /\ CloseOk(fdtab', streams'[in.f])
            /\ IsMemory(in) => FreeBufOk(bufLive', in.start) /\ maps' = maps
            /\ ~IsMemory(in) => ViewMapped(maps, in)
                                 /\ maps' = [maps EXCEPT ![in.start.seg] = 0]
            /\ ~in'.alloc)]_vars
(* a Stream handler freed with the flag clear after a replacement: every   *)
(* stream of the caller is open and nothing is mapped                      *)
C7_Witness ==
    /\ call.op = "ly_in_free" /\ call.a = 0 /\ call.ret = LY_IN_FILE
    /\ ~in.alloc /\ hist.fs # {}
    /\ \A f \in Streams : FcloseOk(streams, f) /\ CloseOk(fdtab, streams[f])
    /\ \A a \in Addrs : maps[a] = 0

(* C8: for a Path handler made by the path constructor and changed only by *)
(* successful path mutator calls, ly_in_free(in, destroy) with destroy 0   *)
(* or 1 closes the private descriptor once and frees the path copy once,   *)
(* and no descriptor opened by the handler is open afterwards.             *)
C8_PathFreeReleasesAll ==
    [][(call'.op = "ly_in_free" /\ IsPath(in) /\ ~hist.failed)
        => (/\ CloseOk(fdtab, in.fd) /\ ~fdtab'[in.fd].open
            /\ \A fd \in FDs \ {in.fd} : fdtab'[fd] = fdtab[fd]
            /\ FreeStrOk(heap, in.filepath) /\ in.filepath \in Slots
            /\ \A s \in Slots : ~heap'[s].live
            /\ \A fd \in hist.opened : ~fdtab'[fd].open
            /\ \A a \in Addrs : maps'[a] = 0
            /\ ~in'.alloc)]_vars
(* a Path handler freed with the flag clear after a successful change of   *)
(* the path: both descriptors it opened are closed                         *)
C8_Witness ==
    /\ call.op = "ly_in_free" /\ call.a = 0 /\ call.ret = LY_IN_FILEPATH
    /\ ~hist.failed /\ Cardinality(hist.opened) >= 2
    /\ \A fd \in hist.opened : ~fdtab[fd].open
    /\ \A s \in Slots : ~heap[s].live

(* C9: ly_in_file(in, f) with a non-null f on a Stream handler returns, on *)
(* success, the stream installed before (left open), and the handler has   *)
(* medium Stream, payload f and a view of the contents of f with current = *)
(* start; on failure (the descriptor of f cannot be mapped or its file is  *)
(* empty) it returns NULL and the handler is untouched, its view mapped.   *)
C9_StreamMutator ==
    [][(call'.op = "ly_in_file" /\ IsFile(in) /\ call'.a # 0)
        => IF Mappable(fdtab, maps, fileno(streams, call'.a))
           THEN /\ call'.ret = in.f /\ FcloseOk(streams', in.f)
                /\ streams' = streams /\ fdtab' = fdtab
                /\ IsFile(in') /\ in'.f = call'.a
                /\ in'.current = in'.start /\ in'.start.off = 0
                /\ in'.start.seg \in Addrs /\ maps[in'.start.seg] = 0
                /\ maps'[in'.start.seg] = fdtab[streams[call'.a]].file
                /\ in'.length = Len(FileContent[fdtab[streams[call'.a]].file])
                /\ maps'[in.start.seg] = 0
           ELSE /\ call'.ret = 0 /\ in' = in /\ maps' = maps
                /\ streams' = streams /\ fdtab' = fdtab
                /\ ViewMapped(maps', in)]_vars
(* a Stream handler that a replacement succeeded on, after ly_in_file()    *)
(* found the file of another stream empty: it is on the stream it had,     *)
(* where it had read to                                                    *)
C9_Witness ==
    /\ call.op = "ly_in_file" /\ call.a # 0 /\ call.ret = 0 /\ call.addr = 0
    /\ IsFile(in) /\ in.f # call.a /\ hist.fs # {}
    /\ in.current.off > 0 /\ ViewMapped(maps, in)

(* Nothing but the record of the call changes                              *)
NothingChanges ==
    /\ in' = in /\ fdtab' = fdtab /\ streams' = streams /\ maps' = maps
    /\ heap' = heap /\ bufLive' = bufLive

(* C10: ly_in_fd(in, -1), ly_in_file(in, NULL), ly_in_filepath(in, NULL)   *)
(* and ly_in_memory(in, NULL) on a handler of the matching medium return   *)
(* the resource installed in the handler (the descriptor, the stream, the  *)
(* path string, the buffer) and change nothing.                            *)
C10_AccessorPurity ==
    [][/\ (call'.op = "ly_in_fd" /\ call'.a = -1 /\ IsFd(in))
            => (call'.ret = in.fd /\ NothingChanges)
       /\ (call'.op = "ly_in_file" /\ call'.a = 0 /\ IsFile(in))
            => (call'.ret = in.f /\ NothingChanges)
       /\ (call'.op = "ly_in_filepath" /\ call'.a = 0 /\ IsPath(in))
            => (call'.ret = in.filepath /\ NothingChanges)
       /\ (call'.op = "ly_in_memory" /\ call'.a = 0 /\ IsMemory(in))
            => (call'.rptr = in.start /\ NothingChanges)]_vars

(* ======================= the claims, C11 to C20 ======================== *)
(* C11: ly_in_memory(in, str) on a Memory handler returns the previous     *)
(* starting address of the data, the buffer that ly_in_new_memory() or the *)
(* last replacing ly_in_memory() installed, whatever has been read or      *)
(* sought in between.                                                      *)
C11_MemoryReturnsStart ==
    [][(call'.op = "ly_in_memory" /\ IsMemory(in))
        => call'.rptr = in.start]_vars

(* The bytes the cursor of h points into and the number of bytes from the  *)
(* cursor to the first NUL at or after it.                                 *)
Bytes(m, h) == Mem(m, h.current.seg)
ToTerminator(m, h) ==
    (CHOOSE k \in (h.current.off + 1)..Len(Bytes(m, h)) :
        /\ Bytes(m, h)[k] = 0
        /\ \A j \in (h.current.off + 1)..(k - 1) : Bytes(m, h)[j] # 0)
    - (h.current.off + 1)
(* Only the cursor of the handler moves, to offset off                     *)
OnlyCursorMoves(off) ==
    /\ in' = [in EXCEPT !.current = Ptr(in.current.seg, off)]
    /\ fdtab' = fdtab /\ streams' = streams /\ maps' = maps
    /\ heap' = heap /\ bufLive' = bufLive

(* C12: ly_read(in, buf, n) with n > 0 on a valid handler returns i = the  *)
(* smaller of n and the number of bytes from current to the first NUL at   *)
(* or after current, copies the i bytes from the old current into buf when *)
(* buf is non-null, and advances current by i, never past the terminator.  *)
C12_ForwardRead ==
    [][(call'.op = "ly_read" /\ call'.a > 0 /\ in.alloc)
        => LET i == Min(call'.a, ToTerminator(maps, in)) IN
           /\ call'.ret = i
           /\ OnlyCursorMoves(in.current.off + i)
           /\ call'.out = IF call'.buf # 0
                          THEN SubSeq(Bytes(maps, in), in.current.off + 1,
                                      in.current.off + i)
                          ELSE <<>>
           /\ \A k \in 1..Len(call'.out) : call'.out[k] # 0
           /\ in'.current.off < Len(Bytes(maps, in))]_vars
(* a forward read into a buffer that the terminator cut short              *)
C12_Witness ==
    /\ call.op = "ly_read" /\ call.a > call.ret /\ call.ret > 0
    /\ call.buf # 0 /\ Len(call.out) = call.ret
    /\ in.alloc /\ Bytes(maps, in)[in.current.off + 1] = 0

(* C13: ly_read(in, buf, n) with n < 0 on a valid handler returns i = the  *)
(* smaller of |n| and current - start, never negative, moves current back  *)
(* by i, never before start, and returns 0 leaving current where it is     *)
(* when current is at start.                                               *)
C13_BackwardRead ==
    [][(call'.op = "ly_read" /\ call'.a < 0 /\ in.alloc)
        => LET i == Min(0 - call'.a, in.current.off - in.start.off) IN
           /\ call'.ret = i /\ call'.ret >= 0
           /\ OnlyCursorMoves(in.current.off - i)
           /\ in'.current.off >= in'.start.off
           /\ in.current = in.start => (call'.ret = 0 /\ in' = in)]_vars
(* a backward read that the start cut short                                *)
C13_Witness ==
    /\ call.op = "ly_read" /\ call.a < 0 /\ call.ret > 0
    /\ call.ret < 0 - call.a
    /\ in.alloc /\ in.current = in.start

(* C14: when the last call was a forward read into a buffer that returned  *)
(* k bytes B, ly_read(in, buf, -k) returns k, writes B into buf in the     *)
(* same order, and leaves current where it was before that forward read.   *)
C14_RoundTrip ==
    [][(call.op = "ly_read" /\ call.a > 0 /\ call.buf # 0 /\ in.alloc
            /\ call'.op = "ly_read" /\ call'.a = 0 - call.ret /\ call'.buf # 0)
        => (/\ call'.ret = call.ret
            /\ call'.out = call.out
            /\ in'.current = Ptr(in.current.seg, in.current.off - call.ret))]_vars
(* a backward read that gave back the two bytes, in their order, that the  *)
(* forward read before it had given                                        *)
C14_Witness ==
    /\ call.op = "ly_read" /\ call.a = -2 /\ call.ret = 2 /\ call.buf # 0
    /\ call.out = <<1, 2>> /\ in.alloc /\ in.current = in.start

(* The content a handler is over: the bytes from start to the terminator   *)
Content(m, h) ==
    SubSeq(Mem(m, h.start.seg), 1, Len(Mem(m, h.start.seg)) - 1)

(* C15: on a handler just made or reset, over a content of L bytes, while  *)
(* the counts of the forward reads into a buffer sum to no more than L     *)
(* each read returns its count, and when they sum to L the bytes copied,   *)
(* one after the other, are the content; once L bytes are consumed, every  *)
(* forward read returns 0, copies nothing and leaves current where it is.  *)
C15_SequentialReads ==
    /\ [](in.alloc /\ hist.seq /\ hist.asked = Len(Content(maps, in))
            => (hist.got = Content(maps, in) /\ Len(hist.got) = hist.asked))
    /\ [][(call'.op = "ly_read" /\ call'.a > 0 /\ in.alloc)
            => (/\ (/\ hist.seq /\ call'.buf # 0
                    /\ Len(hist.got) = hist.asked
                    /\ hist.asked + call'.a <= Len(Content(maps, in)))
                   => (call'.ret = call'.a /\ Len(call'.out) = call'.a)
                /\ in.current.off = Len(Content(maps, in))
                   => (call'.ret = 0 /\ call'.out = <<>> /\ in' = in))]_vars
(* two reads of one byte each have copied the two bytes of the content     *)
C15_Witness ==
    /\ in.alloc /\ hist.seq /\ hist.asked = 2 /\ hist.got = <<1, 2>>
    /\ call.op = "ly_read" /\ call.a = 1 /\ call.ret = 1 /\ call.out = <<2>>
    /\ Content(maps, in) = <<1, 2>>

(* C16: ly_in_reset() on a valid handler, whatever was read or sought,     *)
(* returns LY_SUCCESS, sets current = start and changes nothing else; a    *)
(* second ly_in_reset() changes nothing more; and a forward read of L      *)
(* bytes right after it returns the whole content of length L.             *)
C16_Reset ==
    [][/\ (call'.op = "ly_in_reset" /\ in.alloc)
            => (/\ call'.ret = LY_SUCCESS
                /\ in' = [in EXCEPT !.current = in.start]
                /\ fdtab' = fdtab /\ streams' = streams /\ maps' = maps
                /\ heap' = heap /\ bufLive' = bufLive
                /\ Do_ly_in_reset(in') = [in |-> in', ret |-> LY_SUCCESS])
       /\ (/\ call.op = "ly_in_reset" /\ in.alloc
           /\ call'.op = "ly_read" /\ call'.buf # 0
           /\ call'.a = Len(Content(maps, in)))
            => (/\ call'.ret = Len(Content(maps, in))
                /\ call'.out = Content(maps, in))]_vars
(* a handler over a content of two bytes, reset: its cursor is at start    *)
(* and the history of its reads begins anew                                *)
C16_Witness ==
    /\ call.op = "ly_in_reset" /\ call.ret = LY_SUCCESS
    /\ in.alloc /\ in.current = in.start /\ in.length = 2
    /\ hist.seq /\ hist.asked = 0

Abs(n) == IF n < 0 THEN 0 - n ELSE n

(* C17: ly_read() returns a negative value, LY_EINVAL negated, only when   *)
(* the handler is null or has the medium Error, and then nothing is        *)
(* modified; for a valid handler and every buf and count n it returns r    *)
(* with 0 <= r <= |n|, and for n = 0 it returns 0 and leaves current and   *)
(* the buffer as they are.                                                 *)
C17_ReadResultRange ==
    [][call'.op = "ly_read"
        => (/\ call'.ret < 0 <=> ly_in_type(in) = LY_IN_ERROR
            /\ ly_in_type(in) = LY_IN_ERROR
                 => (/\ call'.ret = 0 - LY_EINVAL /\ call'.out = <<>>
                     /\ NothingChanges)
            /\ ly_in_type(in) # LY_IN_ERROR
                 => (/\ 0 <= call'.ret /\ call'.ret <= Abs(call'.a)
                     /\ Len(call'.out) <= call'.ret)
            /\ (ly_in_type(in) # LY_IN_ERROR /\ call'.a = 0)
                 => (call'.ret = 0 /\ call'.out = <<>> /\ NothingChanges))]_vars
(* ly_read() into a buffer was called without a handler and gave the error *)
C17_Witness ==
    /\ call.op = "ly_read" /\ call.ret = 0 - LY_EINVAL /\ call.ret < 0
    /\ call.buf # 0 /\ call.a # 0 /\ ~in.alloc

(* C18: ly_in_new_fd() returns NULL and makes no handler when the          *)
(* descriptor is negative, when mapping it fails or when its file is       *)
(* empty, and then no view is left mapped; the descriptor passed is not    *)
(* closed or altered in any case. On success the handler has medium        *)
(* Descriptor, stores the descriptor, and start = current = the base of    *)
(* the view, with the length the mapping gave.                             *)
C18_NewFd ==
    [][(call'.op = "ly_in_new_fd" /\ ~in.alloc)
        => (/\ fdtab' = fdtab /\ streams' = streams
            /\ heap' = heap /\ bufLive' = bufLive
            /\ IF call'.a >= 0 /\ Mappable(fdtab, maps, call'.a)
               THEN /\ call'.ret = 1 /\ IsFd(in') /\ in'.fd = call'.a
                    /\ in'.start = in'.current /\ in'.start.off = 0
                    /\ in'.start.seg \in Addrs /\ maps[in'.start.seg] = 0
                    /\ maps' = [maps EXCEPT ![in'.start.seg] = fdtab[call'.a].file]
                    /\ in'.length = Len(FileContent[fdtab[call'.a].file])
                    /\ in'.length > 0
               ELSE /\ call'.ret = 0 /\ ~in'.alloc /\ in' = in
                    /\ maps' = maps)]_vars
(* ly_in_new_fd() found the file of an open descriptor empty: no handler,  *)
(* nothing mapped, the descriptor open                                     *)
C18_Witness ==
    /\ call.op = "ly_in_new_fd" /\ call.ret = 0 /\ call.addr = 0
    /\ ~in.alloc /\ CloseOk(fdtab, call.a)
    /\ Len(FileContent[fdtab[call.a].file]) = 0
    /\ \A a \in Addrs : maps[a] = 0

(* C19: when ly_in_filepath(in, path) with a non-null path succeeds on a   *)
(* Path handler (the path is opened and mapped), the previous private      *)
(* descriptor has been closed once and the previous path copy freed, the   *)
(* handler holds the descriptor opened and a private copy of the new path, *)
(* start = current = the base of the new view, and ly_in_filepath(in,      *)
(* NULL) then returns a string equal to the new path (the path of the file *)
(* the handler reads).                                                     *)
C19_PathSuccess ==
    [][(call'.op = "ly_in_filepath" /\ IsPath(in) /\ call'.a = 1
            /\ call'.fd \in FDs /\ call'.addr \in Addrs)
        => (/\ CloseOk(fdtab, in.fd) /\ ~fdtab'[in.fd].open
            /\ in.filepath \in Slots /\ heap[in.filepath].live
            /\ ~heap'[in.filepath].live
            /\ IsPath(in') /\ in'.fd = call'.fd /\ CloseOk(fdtab', in'.fd)
            /\ in'.filepath \in Slots /\ heap'[in'.filepath].live
            /\ FS(disk, heap'[in'.filepath].str) = fdtab'[in'.fd].file
            /\ in'.start = Ptr(call'.addr, 0) /\ in'.current = in'.start
            /\ maps'[call'.addr] = fdtab'[in'.fd].file
            /\ Do_ly_in_filepath(in', fdtab', maps', heap', disk, NullStr, 0).ret
                 = in'.filepath)]_vars

(* C20: a constructor given a null pointer (ly_in_new_memory,              *)
(* ly_in_new_file, ly_in_new_filepath) or a negative descriptor            *)
(* (ly_in_new_fd) returns NULL and makes, opens and maps nothing; a        *)
(* mutator called without a handler or on a handler of another medium      *)
(* returns its failure value (-1 for ly_in_fd, NULL for ly_in_file and     *)
(* ly_in_memory) and leaves the handler, the descriptors and the mappings  *)
(* as they are.                                                            *)
C20_InvalidArguments ==
    [][/\ (\/ call'.op = "ly_in_new_fd" /\ call'.a < 0
           \/ call'.op \in {"ly_in_new_memory", "ly_in_new_file",
                            "ly_in_new_filepath"} /\ call'.a = 0)
            => (call'.ret = 0 /\ ~in'.alloc /\ NothingChanges)
       /\ (call'.op = "ly_in_fd" /\ ~IsFd(in))
            => (call'.ret = -1 /\ NothingChanges)
       /\ (call'.op = "ly_in_file" /\ ~IsFile(in))
            => (call'.ret = 0 /\ NothingChanges)
       /\ (call'.op = "ly_in_memory" /\ ~IsMemory(in))
            => (call'.rptr = NullPtr /\ NothingChanges)
       /\ (call'.op = "ly_in_filepath" /\ ~IsPath(in))
            => NothingChanges]_vars
(* ly_in_fd() with a descriptor that maps was called on a Stream handler   *)
(* that had read on: -1, the handler on its stream and where it was        *)
C20_Witness ==
    /\ call.op = "ly_in_fd" /\ call.ret = -1 /\ call.addr = NoFd
    /\ call.a \in FDs /\ Mappable(fdtab, maps, call.a)
    /\ IsFile(in) /\ in.current.off > 0 /\ ViewMapped(maps, in)

(* ======================= the claims, C21 to C25 ======================== *)
(* The medium of the handler a constructor makes                           *)
Medium(op) ==
    IF op = "ly_in_new_fd" THEN LY_IN_FD
    ELSE IF op = "ly_in_new_file" THEN LY_IN_FILE
    ELSE IF op = "ly_in_new_filepath" THEN LY_IN_FILEPATH
    ELSE IF op = "ly_in_new_memory" THEN LY_IN_MEMORY
    ELSE LY_IN_ERROR

(* C21: at the return of every call the medium that ly_in_type() reports   *)
(* of a live handler is the medium of the constructor that made it: a      *)
(* constructor returns a handler of its medium, no call on a live handler  *)
(* (a read, a reset, a mutator that succeeds or fails, ly_in_file() and    *)
(* ly_in_filepath() with their relabeling as Descriptor) changes it, and   *)
(* it is never Error.                                                      *)
C21_RelabelInvisible ==
    /\ [](in.alloc => ly_in_type(in) \in LY_IN_FD..LY_IN_MEMORY)
    /\ [][/\ (~in.alloc /\ in'.alloc) => ly_in_type(in') = Medium(call'.op)
          /\ (in.alloc /\ in'.alloc) => ly_in_type(in') = ly_in_type(in)
          /\ call'.op = "ly_in_type" => call'.ret = ly_in_type(in')]_vars
(* a Path handler after ly_in_filepath() relabeled it, opened the new path *)
(* and ly_in_fd() refused the descriptor: its medium is Path               *)
C21_Witness ==
    /\ call.op = "ly_in_filepath" /\ call.a = 1
    /\ call.fd \in FDs /\ call.addr \in {-1, 0}
    /\ in.alloc /\ ly_in_type(in) = LY_IN_FILEPATH

(* The offset of the first NUL at or after start in the bytes the handler  *)
(* is over.                                                                *)
Terminator(m, h) ==
    (CHOOSE k \in (h.start.off + 1)..Len(Mem(m, h.start.seg)) :
        /\ Mem(m, h.start.seg)[k] = 0
        /\ \A j \in (h.start.off + 1)..(k - 1) : Mem(m, h.start.seg)[j] # 0)
    - 1
(* The cursor is in the view: start <= current <= the terminator           *)
InView(m, h) ==
    /\ h.current.seg = h.start.seg
    /\ h.start.off <= h.current.off
    /\ h.current.off <= Terminator(m, h)
(* The last call was a mutator, given something to install, that replaced  *)
(* what the handler reads.                                                 *)
Replacing ==
    \/ call.op = "ly_in_fd" /\ call.a # -1 /\ call.ret # -1
    \/ call.op = "ly_in_file" /\ call.a # 0 /\ call.ret # 0
    \/ call.op = "ly_in_filepath" /\ call.a = 1 /\ Replaced
    \/ call.op = "ly_in_memory" /\ call.a = 1 /\ IsMemory(in)

(* C22: in every state a live handler has start <= current <= T, with T    *)
(* the first NUL at or after start in the bytes installed; and current     *)
(* changes only in ly_read(), in ly_in_reset() and in a mutator that       *)
(* replaces what is read, which leaves current at the new start.           *)
C22_CursorInView ==
    /\ [](in.alloc => InView(maps, in))
    /\ [][(in.alloc /\ in'.alloc /\ in'.current # in.current)
            => (\/ call'.op \in {"ly_read", "ly_in_reset"}
                \/ Replacing' /\ in'.current = in'.start)]_vars
(* a Stream handler after a replacement, read up to the terminator of the  *)
(* new view                                                                *)
C22_Witness ==
    /\ call.op = "ly_read" /\ call.a > call.ret /\ call.ret > 0
    /\ IsFile(in) /\ hist.fs # {} /\ ViewMapped(maps, in)
    /\ in.current.off = Terminator(maps, in)
    /\ in.current.off = in.length

(* C23: on every live handler and for every count n, ly_read(in, NULL, n)  *)
(* and ly_read(in, buf, n) with a buffer return the same value and leave   *)
(* the handler the same, current at the same place; the seek copies no     *)
(* byte and writes nothing but current.                                    *)
C23_SeekAsRead ==
    /\ [](in.alloc =>
            \A n \in Counts :
                /\ Do_ly_read(in, maps, 0, n).ret = Do_ly_read(in, maps, 1, n).ret
                /\ Do_ly_read(in, maps, 0, n).in = Do_ly_read(in, maps, 1, n).in
                /\ Do_ly_read(in, maps, 0, n).out = <<>>)
    /\ [][(call'.op = "ly_read" /\ in.alloc)
            => (/\ call'.ret = Do_ly_read(in, maps, 1 - call'.buf, call'.a).ret
                /\ in' = Do_ly_read(in, maps, 1 - call'.buf, call'.a).in
                /\ call'.buf = 0 =>
                     (/\ call'.out = <<>>
                      /\ in' = [in EXCEPT !.current = in'.current]
                      /\ fdtab' = fdtab /\ streams' = streams /\ maps' = maps
                      /\ heap' = heap /\ bufLive' = bufLive))]_vars
(* a seek backward over the two bytes read: no byte copied, current at     *)
(* start, where the read into a buffer would have left it                  *)
C23_Witness ==
    /\ call.op = "ly_read" /\ call.buf = 0 /\ call.a = -2 /\ call.ret = 2
    /\ call.out = <<>> /\ in.alloc /\ in.current = in.start

(* The views that are mapped                                               *)
LiveViews(m) == {a \in Addrs : m[a] # 0}

(* C24: while a Descriptor, Stream or Path handler is live exactly one     *)
(* view is mapped, the one its start refers to, whatever mutator calls     *)
(* have succeeded or failed; a view is unmapped only while it is mapped    *)
(* and is the handler's; ly_in_free() with either flag unmaps it, so that  *)
(* without a handler nothing is mapped; a Memory handler maps and unmaps   *)
(* nothing.                                                                *)
C24_ViewsBalanced ==
    /\ [](/\ (in.alloc /\ ~IsMemory(in))
               => (ViewMapped(maps, in) /\ LiveViews(maps) = {in.start.seg})
          /\ (~in.alloc \/ IsMemory(in)) => LiveViews(maps) = {})
    /\ [][/\ \A a \in Addrs : (maps[a] # 0 /\ maps'[a] = 0)
                => (in.alloc /\ ~IsMemory(in) /\ in.start = Ptr(a, 0))
          /\ (call'.op = "ly_in_free" /\ in.alloc /\ ~IsMemory(in))
                => (/\ ~Do_ly_in_free(in, fdtab, streams, maps, heap, bufLive,
                                      call'.a).merr
                    /\ maps' = [maps EXCEPT ![in.start.seg] = 0]
                    /\ LiveViews(maps') = {})
          /\ (call'.op = "ly_in_fd" /\ IsFd(in))
                => ~Do_ly_in_fd(in, fdtab, maps, call'.a).merr
          /\ (call'.op = "ly_in_file" /\ IsFile(in))
                => ~Do_ly_in_file(in, streams, fdtab, maps, call'.a).merr
          /\ IsMemory(in) => maps' = maps]_vars
(* a Path handler freed with the flag clear, after a replacement that took *)
(* place and one that did not: nothing is mapped                           *)
C24_Witness ==
    /\ call.op = "ly_in_free" /\ call.a = 0 /\ call.ret = LY_IN_FILEPATH
    /\ ~in.alloc /\ hist.failed /\ Cardinality(hist.opened) >= 2
    /\ LiveViews(maps) = {}

(* C25: when the open() of ly_in_new_filepath() or of ly_in_filepath() on  *)
(* a Path handler returns a descriptor >= 0, 0 included, of a file that is *)
(* not empty and can be mapped, the constructor returns a Path handler     *)
(* holding that descriptor and the mutator installs it; when open()        *)
(* returns -1 the call fails: no handler is made, or the handler is left   *)
(* as it was, and the copy of the path is freed.                           *)
C25_OpenDecided ==
    [][/\ (call'.op = "ly_in_new_filepath" /\ ~in.alloc /\ call'.a = 1)
            => (/\ (call'.fd >= 0 /\ Mappable(fdtab', maps, call'.fd))
                    => (IsPath(in') /\ in'.fd = call'.fd
                        /\ CloseOk(fdtab', in'.fd))
                /\ call'.fd = -1
                    => (call'.ret = 0 /\ ~in'.alloc /\ heap' = heap
                        /\ fdtab' = fdtab /\ maps' = maps))
       /\ (call'.op = "ly_in_filepath" /\ IsPath(in) /\ call'.a = 1)
            => (/\ (call'.fd >= 0 /\ Mappable(fdtab', maps, call'.fd))
                    => (IsPath(in') /\ in'.fd = call'.fd
                        /\ CloseOk(fdtab', in'.fd)
                        /\ in'.start.seg \in Addrs
                        /\ maps'[in'.start.seg] = fdtab'[in'.fd].file)
                /\ call'.fd = -1
                    => (in' = in /\ heap' = heap
                        /\ fdtab' = fdtab /\ maps' = maps))]_vars
====
